---- MODULE Spec2Model ----
(***************************************************************************)
(* Model of guidellm_parser.py: parse_benchmarks (the extractor),          *)
(* index_to_opensearch (the indexer) and main (the orchestration).         *)
(*                                                                         *)
(* Python values are represented as follows.                               *)
(*   dict   a function whose domain is a set of strings ({} is <<>>)       *)
(*   list   a sequence                                                     *)
(*   str    request_loader.data, the one string the code takes apart, is a *)
(*          sequence of one-character strings; every other str is a string *)
(*   None   the string "None" for the optional command-line arguments      *)
(* prompt_tokens and output_tokens hold either a str or the int 0; the two *)
(* are kept apart by a tag: [str |-> s] and [int |-> 0].                   *)
(***************************************************************************)
EXTENDS Integers, Sequences, FiniteSets, TLC

VARIABLES
    args,        \* argparse namespace: uuid, job_name, es_server, es_index, output
    file,        \* what is found at args.results: kind "missing", "invalid" (not JSON),
                 \* "other" (JSON, not a mapping) or "json" with the mapping in data
    pc,          \* position of the process
    results,     \* main's local `results` (<<>> until parse_benchmarks returned)
    raised,      \* exception that nothing caught ("" when none)
    client,      \* number of OpenSearch clients created
    pings,       \* outcomes of the es.ping() calls made, in order
    indexCalls,  \* bodies of the es.index() calls made, in order
    success,     \* return value of index_to_opensearch ("unset" before it returns)
    stdout,      \* what was printed to standard output, in order
    outFile,     \* what was written to the file at args.output (<<>> while it does not exist)
    fault,       \* exception raised inside index_to_opensearch's try block ("" when none)
    exitStatus   \* process exit status (-1 while running)

vars == <<args, file, pc, results, raised, fault, client, pings, indexCalls, success,
          stdout, outFile, exitStatus>>

-----------------------------------------------------------------------------
(* Bounds *)

\* longest request_loader.data string enumerated
MaxLen == 3
\* largest number of requests (successful plus errored) in a benchmark
MaxReq == 2

-----------------------------------------------------------------------------
(* Python helpers *)

EmptyDict == <<>>

\* dict.get(k, def)
Get(d, k, def) == IF k \in DOMAIN d THEN d[k] ELSE def

PyStr(s) == [str |-> s]
PyInt(n) == [int |-> n]

\* str.split(sep) for a one-character separator
RECURSIVE Split(_, _)
Split(s, sep) ==
    IF Len(s) = 0 THEN << <<>> >>
    ELSE LET rest == Split(Tail(s), sep)
         IN  IF Head(s) = sep
             THEN << <<>> >> \o rest
             ELSE << <<Head(s)>> \o rest[1] >> \o Tail(rest)

\* sub in s, for a one-character sub
Contains(s, c) == \E i \in 1..Len(s) : s[i] = c

\* int(x) for a non-negative JSON number; a number is held as its count of
\* halves (5 is 2.5), and int() truncates
int(halves) == halves \div 2

\* datetime.fromtimestamp(t).isoformat() for whole seconds t >= 0, local zone UTC
IsoFormat(t) ==
    [date |-> <<1970, 1, 1 + (t \div 86400)>>,
     time |-> <<(t % 86400) \div 3600, (t % 3600) \div 60, t % 60>>]

\* json.dumps(results, indent=2)
JsonDumps(v) == [indent |-> 2, text |-> v]

-----------------------------------------------------------------------------
(* parse_benchmarks *)

LoaderData(benchmark) == Get(Get(benchmark, "request_loader", EmptyDict), "data", <<>>)

\* mutant: the ',' split is left out
PromptTokens_NoCommaSplit(benchmark) ==
    IF Contains(LoaderData(benchmark), "=")
    THEN PyStr(Split(LoaderData(benchmark), "=")[2])
    ELSE PyInt(0)

\* line 69
PromptTokens(benchmark) ==
    IF Contains(LoaderData(benchmark), "=")
    THEN PyStr(Split(Split(LoaderData(benchmark), "=")[2], ",")[1])
    ELSE PyInt(0)

\* line 70: split('=')[2] raises IndexError when the list has fewer than 3 parts
OutputTokensRaises(benchmark) ==
    /\ Contains(LoaderData(benchmark), "=")
    /\ Len(Split(LoaderData(benchmark), "=")) < 3

OutputTokens(benchmark) ==
    IF Contains(LoaderData(benchmark), "=")
    THEN PyStr(Split(LoaderData(benchmark), "=")[3])
    ELSE PyInt(0)

\* metrics.get(name, {}).get('successful', {})
Successful(metrics, name) == Get(Get(metrics, name, EmptyDict), "successful", EmptyDict)

Mean(m) == Get(m, "mean", 0)
Pct(m, p) == Get(Get(m, "percentiles", EmptyDict), p, 0)

\* lines 50-74
SummaryBase(benchmark, uuid, job_name) ==
    [uuid |-> uuid,
     job_name |-> job_name,
     timestamp |-> IsoFormat(Get(benchmark, "start_time", 0)),
     strategy |-> Get(Get(Get(benchmark, "args", EmptyDict), "strategy", EmptyDict), "type_", ""),
     rate |-> int(Get(Get(Get(benchmark, "args", EmptyDict), "strategy", EmptyDict), "rate", 0)),
     total_requests |-> Get(Get(benchmark, "request_totals", EmptyDict), "total", 0),
     successful_requests |-> Get(Get(benchmark, "request_totals", EmptyDict), "successful", 0),
     errored_requests |-> Get(Get(benchmark, "request_totals", EmptyDict), "errored", 0),
     incomplete_requests |-> Get(Get(benchmark, "request_totals", EmptyDict), "incomplete", 0),
     prompt_tokens |-> PromptTokens(benchmark),
     output_tokens |-> OutputTokens(benchmark),
     backend_model |-> Get(Get(benchmark, "worker", EmptyDict), "backend_model", "")]

\* lines 77-131: the seven summary.update(...) calls
SummaryMetrics(metrics) ==
    LET ttft == Successful(metrics, "time_to_first_token_ms")
        itl == Successful(metrics, "inter_token_latency_ms")
        throughput == Successful(metrics, "requests_per_second")
        latency == Successful(metrics, "request_latency")
        tps == Successful(metrics, "tokens_per_second")
        otps == Successful(metrics, "output_tokens_per_second")
        tpot == Successful(metrics, "time_per_output_token_ms")
    IN  [ttft_mean_ms |-> Mean(ttft),
         ttft_p99_ms |-> Pct(ttft, "p99"),
         itl_mean_ms |-> Mean(itl),
         itl_p99_ms |-> Pct(itl, "p99"),
         throughput_mean_rps |-> Mean(throughput),
         throughput_p95_rps |-> Pct(throughput, "p95"),
         throughput_p99_rps |-> Pct(throughput, "p99"),
         request_latency_mean_seconds |-> Mean(latency),
         request_latency_p95_seconds |-> Pct(latency, "p95"),
         request_latency_p99_seconds |-> Pct(latency, "p99"),
         tokens_per_second_mean |-> Mean(tps),
         tokens_per_second_p95 |-> Pct(tps, "p95"),
         tokens_per_second_p99 |-> Pct(tps, "p99"),
         output_tokens_per_second_mean |-> Mean(otps),
         output_tokens_per_second_p95 |-> Pct(otps, "p95"),
         output_tokens_per_second_p99 |-> Pct(otps, "p99"),
         time_per_output_token_mean_ms |-> Mean(tpot),
         time_per_output_token_p95_ms |-> Pct(tpot, "p95"),
         time_per_output_token_p99_ms |-> Pct(tpot, "p99")]

\* summary after the updates (dict.update lets the later keys win)
Summary(benchmark, uuid, job_name) ==
    SummaryMetrics(Get(benchmark, "metrics", EmptyDict)) @@ SummaryBase(benchmark, uuid, job_name)

\* mutant: the record starts from the request's own fields, which win
SuccessfulRecord_DocumentIds(request, uuid, job_name) ==
    LET scheduler_info == Get(request, "scheduler_info", EmptyDict)
    IN  [timestamp |-> IsoFormat(Get(scheduler_info, "request_start", 0)),
         errored |-> Get(scheduler_info, "errored", FALSE),
         completed |-> Get(scheduler_info, "completed", FALSE),
         request_latency_seconds |-> Get(request, "request_latency", 0),
         tokens_per_second |-> Get(request, "tokens_per_second", 0),
         output_tokens_per_second |-> Get(request, "output_tokens_per_second", 0),
         time_per_output_token_ms |-> Get(request, "time_per_output_token_ms", 0),
         inter_token_latency_ms |-> Get(request, "inter_token_latency_ms", 0),
         time_to_first_token_ms |-> Get(request, "time_to_first_token_ms", 0),
         uuid |-> Get(request, "uuid", uuid),
         job_name |-> Get(request, "job_name", job_name)]

\* lines 139-152
SuccessfulRecord(request, uuid, job_name) ==
    LET scheduler_info == Get(request, "scheduler_info", EmptyDict)
    IN  [timestamp |-> IsoFormat(Get(scheduler_info, "request_start", 0)),
         errored |-> Get(scheduler_info, "errored", FALSE),
         completed |-> Get(scheduler_info, "completed", FALSE),
         request_latency_seconds |-> Get(request, "request_latency", 0),
         tokens_per_second |-> Get(request, "tokens_per_second", 0),
         output_tokens_per_second |-> Get(request, "output_tokens_per_second", 0),
         time_per_output_token_ms |-> Get(request, "time_per_output_token_ms", 0),
         inter_token_latency_ms |-> Get(request, "inter_token_latency_ms", 0),
         time_to_first_token_ms |-> Get(request, "time_to_first_token_ms", 0),
         uuid |-> uuid,
         job_name |-> job_name]

\* mutant: the errored record also carries request_latency_seconds
ErroredRecord_WithLatency(request, uuid, job_name) ==
    LET scheduler_info == Get(request, "scheduler_info", EmptyDict)
    IN  [timestamp |-> IsoFormat(Get(scheduler_info, "request_start", 0)),
         errored |-> Get(scheduler_info, "errored", TRUE),
         completed |-> Get(scheduler_info, "completed", FALSE),
         request_latency_seconds |-> Get(request, "request_latency", 0),
         uuid |-> uuid,
         job_name |-> job_name]

\* lines 157-164
ErroredRecord(request, uuid, job_name) ==
    LET scheduler_info == Get(request, "scheduler_info", EmptyDict)
    IN  [timestamp |-> IsoFormat(Get(scheduler_info, "request_start", 0)),
         errored |-> Get(scheduler_info, "errored", TRUE),
         completed |-> Get(scheduler_info, "completed", FALSE),
         uuid |-> uuid,
         job_name |-> job_name]

\* mutant: the errored loop runs before the successful loop
BuildResult_ErroredFirst(benchmark, uuid, job_name) ==
    LET requests == Get(benchmark, "requests", EmptyDict)
        successful_requests == Get(requests, "successful", <<>>)
        errored_requests == Get(requests, "errored", <<>>)
    IN  << Summary(benchmark, uuid, job_name) >>
        \o [i \in 1..Len(errored_requests) |->
                ErroredRecord(errored_requests[i], uuid, job_name)]
        \o [i \in 1..Len(successful_requests) |->
                SuccessfulRecord(successful_requests[i], uuid, job_name)]

\* lines 133-167: result = [summary], then the two loops
BuildResult(benchmark, uuid, job_name) ==
    LET requests == Get(benchmark, "requests", EmptyDict)
        successful_requests == Get(requests, "successful", <<>>)
        errored_requests == Get(requests, "errored", <<>>)
    IN  << Summary(benchmark, uuid, job_name) >>
        \o [i \in 1..Len(successful_requests) |->
                SuccessfulRecord(successful_requests[i], uuid, job_name)]
        \o [i \in 1..Len(errored_requests) |->
                ErroredRecord(errored_requests[i], uuid, job_name)]

\* lines 41-44: `if not benchmarks: sys.exit(1)`
NoBenchmarks(data) == Len(Get(data, "benchmarks", <<>>)) = 0

\* The whole call: how it ends ("exit": sys.exit(code); "raise": an exception
\* leaves the function; "return": the value returned). data.get at line 41 raises
\* AttributeError when the JSON value is not a mapping.
parse_benchmarks(f, uuid, job_name) ==
    IF f.kind = "missing"
    THEN [kind |-> "exit", code |-> 1, message |-> "Error: File not found"]
    ELSE IF f.kind = "invalid"
    THEN [kind |-> "exit", code |-> 1, message |-> "Error: Invalid JSON"]
    ELSE IF f.kind = "other"
    THEN [kind |-> "raise", exc |-> "AttributeError"]
    ELSE IF NoBenchmarks(f.data)
    THEN [kind |-> "exit", code |-> 1, message |-> "Error: No benchmarks found in the file"]
    ELSE LET benchmark == f.data["benchmarks"][1]
         IN  IF OutputTokensRaises(benchmark)
             THEN [kind |-> "raise", exc |-> "IndexError"]
             ELSE [kind |-> "return", value |-> BuildResult(benchmark, uuid, job_name)]

-----------------------------------------------------------------------------
(* Inputs: the documents and command lines the runs are drawn from *)

Chars == {"=", ",", "7"}

\* every string over Chars of length at most n
Strings(n) == UNION {[1..k -> Chars] : k \in 0..n}

\* "p=128,o=256": the documented key=value,key=value shape
ExampleData == <<"p", "=", "1", "2", "8", ",", "o", "=", "2", "5", "6">>

DataStrings == Strings(MaxLen) \cup {ExampleData}

\* an optional value: {} when absent, {v} when present
Optional(S) == {{}} \cup {{v} : v \in S}
Field(k, opt) == IF opt = {} THEN EmptyDict ELSE k :> (CHOOSE v \in opt : TRUE)

\* request_loader: absent, {} or {data: s}
Loaders == Optional({EmptyDict} \cup {[data |-> s] : s \in DataStrings})

\* a request entry with every field (and keys named like the caller's), and one with none
FullRequest ==
    [scheduler_info |-> [request_start |-> 3725, errored |-> FALSE, completed |-> TRUE],
     request_latency |-> 11, tokens_per_second |-> 12, output_tokens_per_second |-> 13,
     time_per_output_token_ms |-> 14, inter_token_latency_ms |-> 15,
     time_to_first_token_ms |-> 16, uuid |-> "doc-uuid", job_name |-> "doc-job"]

RequestEntries == {FullRequest, EmptyDict}

RequestLists(n) == UNION {[1..k -> RequestEntries] : k \in 0..n}

\* requests: absent, or a mapping whose successful and errored keys are each optional
RequestsMaps ==
    Optional({Field("successful", s) @@ Field("errored", e) :
                <<s, e>> \in {p \in Optional(RequestLists(MaxReq)) \X Optional(RequestLists(MaxReq)) :
                    (IF p[1] = {} THEN 0 ELSE Len(CHOOSE v \in p[1] : TRUE))
                    + (IF p[2] = {} THEN 0 ELSE Len(CHOOSE v \in p[2] : TRUE)) <= MaxReq}})

FullMetric(n) == [successful |-> [mean |-> n, percentiles |-> [p95 |-> n + 1, p99 |-> n + 2]]]

\* metrics at nesting level 1 (empty), 2 (categories present, leaves partly absent), 3 (full)
MetricsAt(level) ==
    IF level = 1 THEN EmptyDict
    ELSE IF level = 2
    THEN [time_to_first_token_ms |-> [successful |-> [mean |-> 20]],
          inter_token_latency_ms |-> [successful |-> EmptyDict],
          requests_per_second |-> EmptyDict,
          request_latency |-> [successful |-> [percentiles |-> EmptyDict]],
          tokens_per_second |-> [successful |-> [percentiles |-> [p99 |-> 62]]]]
    ELSE [time_to_first_token_ms |-> FullMetric(20),
          inter_token_latency_ms |-> FullMetric(30),
          requests_per_second |-> FullMetric(40),
          request_latency |-> FullMetric(50),
          tokens_per_second |-> FullMetric(60),
          output_tokens_per_second |-> FullMetric(70),
          time_per_output_token_ms |-> FullMetric(80)]

ArgsAt(level) ==
    IF level = 1 THEN EmptyDict
    ELSE IF level = 2 THEN [strategy |-> EmptyDict]
    ELSE [strategy |-> [type_ |-> "constant", rate |-> 5]]

TotalsAt(level) ==
    IF level < 3 THEN EmptyDict
    ELSE [total |-> 9, successful |-> 6, errored |-> 2, incomplete |-> 1]

WorkerAt(level) ==
    IF level < 3 THEN EmptyDict ELSE [backend_model |-> "model-a"]

TopKeys == {"start_time", "args", "request_totals", "worker", "metrics"}

\* the optional top-level fields: everything at one level (0 is absent), or one key absent
Shapes == {<<{}, l>> : l \in 0..3} \cup {<<{k}, 3>> : k \in TopKeys}

Present(shape, k) == shape[2] > 0 /\ k \notin shape[1]

Benchmark(shape, loader, requests) ==
    (IF Present(shape, "start_time") THEN "start_time" :> 86461 ELSE EmptyDict)
    @@ (IF Present(shape, "args") THEN "args" :> ArgsAt(shape[2]) ELSE EmptyDict)
    @@ (IF Present(shape, "request_totals") THEN "request_totals" :> TotalsAt(shape[2]) ELSE EmptyDict)
    @@ (IF Present(shape, "worker") THEN "worker" :> WorkerAt(shape[2]) ELSE EmptyDict)
    @@ (IF Present(shape, "metrics") THEN "metrics" :> MetricsAt(shape[2]) ELSE EmptyDict)
    @@ (IF shape[2] = 3 THEN [uuid |-> "doc-uuid", job_name |-> "doc-job"] ELSE EmptyDict)
    @@ Field("request_loader", loader)
    @@ Field("requests", requests)

Benchmarks == {Benchmark(sh, l, r) : sh \in Shapes, l \in Loaders, r \in RequestsMaps}

\* a second benchmark entry, which the code never reads
OtherBenchmark == [start_time |-> 1, requests |-> [successful |-> <<FullRequest>>]]

Doc(benchmarks) == [kind |-> "json", data |-> [benchmarks |-> benchmarks]]

\* files that end the run at once: missing, not JSON, JSON that is no mapping,
\* no benchmarks key, empty benchmarks
BadFiles ==
    {[kind |-> "missing"], [kind |-> "invalid"], [kind |-> "other"],
     [kind |-> "json", data |-> EmptyDict], Doc(<<>>)}

ParseFiles ==
    BadFiles \cup {Doc(<<b>>) : b \in Benchmarks}
    \cup {Doc(<<Benchmark(<<{}, 3>>, {[data |-> ExampleData]}, {}), OtherBenchmark>>)}

\* a handful of documents for the runs of main
MainFiles ==
    BadFiles
    \cup {Doc(<<Benchmark(sh, {[data |-> d]}, {[successful |-> <<FullRequest>>, errored |-> <<EmptyDict>>]})>>) :
            sh \in {<<{}, 0>>, <<{}, 3>>}, d \in {<<>>, ExampleData, <<"7", "=", "7">>}}

Ids == {<<"", "">>, <<"u-1", "job-1">>}

\* argparse gives None (here "None") for an option that was not passed
ParseArgs ==
    {[uuid |-> id[1], job_name |-> id[2], es_server |-> "None", es_index |-> "None",
      output |-> "None"] : id \in Ids}

MainArgs ==
    {[uuid |-> id[1], job_name |-> id[2], es_server |-> s, es_index |-> i, output |-> o] :
        id \in Ids, s \in {"None", "", "http://es:9200"}, i \in {"None", "", "bench"},
        o \in {"None", "", "out.json"}}

\* truth value of an optional string argument
Truthy(a) == a # "None" /\ a # ""

-----------------------------------------------------------------------------
(* The process *)

InitWith(files, argsets) ==
    /\ file \in files
    /\ args \in argsets
    /\ pc = "main"
    /\ results = <<>>
    /\ raised = ""
    /\ fault = ""
    /\ client = 0
    /\ pings = <<>>
    /\ indexCalls = <<>>
    /\ success = "unset"
    /\ stdout = <<>>
    /\ outFile = <<>>
    /\ exitStatus = -1

Init == InitWith(MainFiles, MainArgs)
InitParse == InitWith(ParseFiles, ParseArgs)

Message(text) == [what |-> "message", text |-> text]

\* sys.exit(code), or an exception nobody catches (status 1)
Exit(code) == pc' = "exited" /\ exitStatus' = code

\* mutant: sys.exit(1) is left out after the error message
ParseBenchmarks_NoExit ==
    /\ pc = "main"
    /\ LET r == parse_benchmarks(file, args.uuid, args.job_name)
       IN  \/ /\ r.kind = "exit"
              /\ stdout' = Append(stdout, Message(r.message))
              /\ pc' = "parsed"
              /\ UNCHANGED <<results, raised, exitStatus>>
           \/ /\ r.kind = "raise"
              /\ Exit(1)
              /\ raised' = r.exc
              /\ UNCHANGED <<results, stdout>>
           \/ /\ r.kind = "return"
              /\ results' = r.value
              /\ pc' = "parsed"
              /\ UNCHANGED <<raised, stdout, exitStatus>>
    /\ UNCHANGED <<args, file, fault, client, pings, indexCalls, success, outFile>>

\* main line 225: results = parse_benchmarks(args.results, args.uuid, args.job_name)
ParseBenchmarks ==
    /\ pc = "main"
    /\ LET r == parse_benchmarks(file, args.uuid, args.job_name)
       IN  \/ /\ r.kind = "exit"
              /\ Exit(r.code)
              /\ stdout' = Append(stdout, Message(r.message))
              /\ UNCHANGED <<results, raised>>
           \/ /\ r.kind = "raise"
              /\ Exit(1)
              /\ raised' = r.exc
              /\ UNCHANGED <<results, stdout>>
           \/ /\ r.kind = "return"
              /\ results' = r.value
              /\ pc' = "parsed"
              /\ UNCHANGED <<raised, stdout, exitStatus>>
    /\ UNCHANGED <<args, file, fault, client, pings, indexCalls, success, outFile>>


\* mutant: `or` in place of `and`
IndexRequested_Or == Truthy(args.es_server) \/ Truthy(args.es_index)

\* main line 228: if args.es_server and args.es_index
IndexRequested == Truthy(args.es_server) /\ Truthy(args.es_index)

Gate ==
    /\ pc = "parsed"
    /\ pc' = IF IndexRequested THEN "index_to_opensearch" ELSE "output"
    /\ UNCHANGED <<args, file, results, raised, fault, client, pings, indexCalls,
                   success, stdout, outFile, exitStatus>>

\* mutant: the final `except Exception` clause is missing
Caught_NoCatchAll(exc) == exc \in {"ConnectionError", "RequestError"}

\* lines 201-209: the except clauses of index_to_opensearch; each returns False
Caught(exc) == exc \in {"ConnectionError", "RequestError", "Exception", "KeyError"}

\* an exception raised inside the try block: caught (the call returns False), or
\* it leaves the function and, main catching nothing, ends the process
Raise(exc) ==
    /\ fault' = exc
    /\ IF Caught(exc)
       THEN success' = "False" /\ pc' = "returned" /\ UNCHANGED <<raised, exitStatus>>
       ELSE Exit(1) /\ raised' = exc /\ UNCHANGED success

\* line 185: es = OpenSearch([es_server])
CreateClient ==
    /\ pc = "index_to_opensearch"
    /\ \/ /\ client' = client + 1
          /\ pc' = "ping"
          /\ UNCHANGED <<raised, fault, success, exitStatus>>
       \/ /\ Raise("Exception")
          /\ UNCHANGED client
    /\ UNCHANGED <<args, file, results, pings, indexCalls, stdout, outFile>>

\* mutant: the result of es.ping() is not looked at
Ping_ResultIgnored ==
    /\ pc = "ping"
    /\ \E outcome \in {"True", "False", "ConnectionError", "Exception"} :
        /\ pings' = Append(pings, outcome)
        /\ IF outcome \in {"True", "False"}
           THEN pc' = "index" /\ UNCHANGED <<raised, fault, success, exitStatus>>
           ELSE Raise(outcome)
    /\ UNCHANGED <<args, file, results, client, indexCalls, stdout, outFile>>

\* lines 188-190: the connectivity probe
Ping ==
    /\ pc = "ping"
    /\ \E outcome \in {"True", "False", "ConnectionError", "Exception"} :
        /\ pings' = Append(pings, outcome)
        /\ IF outcome = "True"
           THEN pc' = "index" /\ UNCHANGED <<raised, fault, success, exitStatus>>
           ELSE IF outcome = "False"
           THEN success' = "False" /\ pc' = "returned" /\ UNCHANGED <<raised, fault, exitStatus>>
           ELSE Raise(outcome)
    /\ UNCHANGED <<args, file, results, client, indexCalls, stdout, outFile>>

\* lines 193-199: the index request; the response may lack '_id' (KeyError at line 198)
Index ==
    /\ pc = "index"
    /\ indexCalls' = Append(indexCalls, [index |-> args.es_index, body |-> results])
    /\ \E outcome \in {"_id", "no _id", "ConnectionError", "RequestError", "Exception"} :
        IF outcome = "_id"
        THEN /\ stdout' = Append(stdout, Message("Successfully indexed document"))
             /\ success' = "True"
             /\ pc' = "returned"
             /\ UNCHANGED <<raised, fault, exitStatus>>
        ELSE /\ Raise(IF outcome = "no _id" THEN "KeyError" ELSE outcome)
             /\ UNCHANGED stdout
    /\ UNCHANGED <<args, file, results, client, pings, outFile>>

\* main lines 229-231: success = index_to_opensearch(...); if not success: sys.exit(1)
AfterIndex ==
    /\ pc = "returned"
    /\ IF success = "True"
       THEN pc' = "output" /\ UNCHANGED exitStatus
       ELSE Exit(1)
    /\ UNCHANGED <<args, file, results, raised, fault, client, pings, indexCalls,
                   success, stdout, outFile>>

\* main lines 234-241, then the normal end of the process; open(args.output, 'w')
\* raises OSError when the path cannot be written
Output ==
    /\ pc = "output"
    /\ IF Truthy(args.output)
       THEN \E writable \in BOOLEAN :
              IF writable
              THEN /\ outFile' = Append(outFile, JsonDumps(results))
                   /\ stdout' = Append(stdout, Message("Results written"))
                   /\ Exit(0)
                   /\ UNCHANGED raised
              ELSE /\ raised' = "OSError"
                   /\ Exit(1)
                   /\ UNCHANGED <<outFile, stdout>>
       ELSE /\ stdout' = Append(stdout, [what |-> "results", body |-> JsonDumps(results)])
            /\ Exit(0)
            /\ UNCHANGED <<outFile, raised>>
    /\ UNCHANGED <<args, file, results, fault, client, pings, indexCalls, success>>

Next ==
    \/ ParseBenchmarks
    \/ Gate
    \/ CreateClient
    \/ Ping
    \/ Index
    \/ AfterIndex
    \/ Output

\* a run of main
Spec == Init /\ [][Next]_vars

\* a call of parse_benchmarks alone, over the wide set of documents
NextParse == ParseBenchmarks
SpecParse == InitParse /\ [][NextParse]_vars

-----------------------------------------------------------------------------
(* Vocabulary of the properties *)

\* parse_benchmarks returned (a returned sequence starts with the summary)
Returned == Len(results) > 0

\* the file parses and its benchmarks sequence is non-empty
HasBenchmark ==
    /\ file.kind = "json"
    /\ "benchmarks" \in DOMAIN file.data
    /\ Len(file.data["benchmarks"]) > 0

TheBenchmark == file.data["benchmarks"][1]

\* requests.successful and requests.errored of the first benchmark (empty when absent)
DocRequests(key) ==
    IF "requests" \in DOMAIN TheBenchmark /\ key \in DOMAIN TheBenchmark["requests"]
    THEN TheBenchmark["requests"][key]
    ELSE <<>>

\* request_start of a request entry, 0 when absent
StartOf(request) ==
    IF "scheduler_info" \in DOMAIN request /\ "request_start" \in DOMAIN request["scheduler_info"]
    THEN request["scheduler_info"]["request_start"]
    ELSE 0

\* request_loader.data of the first benchmark (empty when absent)
DocData ==
    IF "request_loader" \in DOMAIN TheBenchmark /\ "data" \in DOMAIN TheBenchmark["request_loader"]
    THEN TheBenchmark["request_loader"]["data"]
    ELSE <<>>

IdKeys == {"uuid", "job_name"}
ErroredKeys == {"timestamp", "errored", "completed"} \cup IdKeys
LatencyKeys ==
    {"request_latency_seconds", "tokens_per_second", "output_tokens_per_second",
     "time_per_output_token_ms", "inter_token_latency_ms", "time_to_first_token_ms"}
SuccessfulKeys == ErroredKeys \cup LatencyKeys

\* summary key, metric category, leaf: the declared metric fields
MetricFields ==
    {<<"ttft_mean_ms", "time_to_first_token_ms", "mean">>,
     <<"ttft_p99_ms", "time_to_first_token_ms", "p99">>,
     <<"itl_mean_ms", "inter_token_latency_ms", "mean">>,
     <<"itl_p99_ms", "inter_token_latency_ms", "p99">>,
     <<"throughput_mean_rps", "requests_per_second", "mean">>,
     <<"throughput_p95_rps", "requests_per_second", "p95">>,
     <<"throughput_p99_rps", "requests_per_second", "p99">>,
     <<"request_latency_mean_seconds", "request_latency", "mean">>,
     <<"request_latency_p95_seconds", "request_latency", "p95">>,
     <<"request_latency_p99_seconds", "request_latency", "p99">>,
     <<"tokens_per_second_mean", "tokens_per_second", "mean">>,
     <<"tokens_per_second_p95", "tokens_per_second", "p95">>,
     <<"tokens_per_second_p99", "tokens_per_second", "p99">>,
     <<"output_tokens_per_second_mean", "output_tokens_per_second", "mean">>,
     <<"output_tokens_per_second_p95", "output_tokens_per_second", "p95">>,
     <<"output_tokens_per_second_p99", "output_tokens_per_second", "p99">>,
     <<"time_per_output_token_mean_ms", "time_per_output_token_ms", "mean">>,
     <<"time_per_output_token_p95_ms", "time_per_output_token_ms", "p95">>,
     <<"time_per_output_token_p99_ms", "time_per_output_token_ms", "p99">>}

\* summary key and the request_totals key it is read from
TotalFields ==
    {<<"total_requests", "total">>, <<"successful_requests", "successful">>,
     <<"errored_requests", "errored">>, <<"incomplete_requests", "incomplete">>}

SummaryKeys ==
    IdKeys \cup {"timestamp", "strategy", "rate", "prompt_tokens", "output_tokens", "backend_model"}
    \cup {f[1] : f \in TotalFields} \cup {f[1] : f \in MetricFields}

\* whether the document holds metrics.<category>.successful.<leaf>
MetricPresent(category, leaf) ==
    /\ "metrics" \in DOMAIN TheBenchmark
    /\ category \in DOMAIN TheBenchmark["metrics"]
    /\ "successful" \in DOMAIN TheBenchmark["metrics"][category]
    /\ LET m == TheBenchmark["metrics"][category]["successful"]
       IN  IF leaf = "mean" THEN "mean" \in DOMAIN m
           ELSE "percentiles" \in DOMAIN m /\ leaf \in DOMAIN m["percentiles"]

TotalPresent(key) ==
    "request_totals" \in DOMAIN TheBenchmark /\ key \in DOMAIN TheBenchmark["request_totals"]

RatePresent ==
    /\ "args" \in DOMAIN TheBenchmark
    /\ "strategy" \in DOMAIN TheBenchmark["args"]
    /\ "rate" \in DOMAIN TheBenchmark["args"]["strategy"]

\* positions of '=' in s, and the first position after `from` holding one of `stops`
\* (Len(s) + 1 when there is none)
NextStop(s, from, stops) ==
    IF \E i \in (from + 1)..Len(s) : s[i] \in stops
    THEN CHOOSE i \in (from + 1)..Len(s) :
            s[i] \in stops /\ \A j \in (from + 1)..(i - 1) : s[j] \notin stops
    ELSE Len(s) + 1

CountOf(s, c) == Cardinality({i \in 1..Len(s) : s[i] = c})

\* the records main emitted to the requested destination
Emitted ==
    IF args.output # "None" /\ args.output # ""
    THEN Len(outFile) > 0 /\ outFile[Len(outFile)] = JsonDumps(results)
    ELSE \E i \in 1..Len(stdout) :
            stdout[i].what = "results" /\ stdout[i] = [what |-> "results", body |-> JsonDumps(results)]

NothingEmitted ==
    /\ outFile = <<>>
    /\ \A i \in 1..Len(stdout) : stdout[i].what # "results"

BothSupplied ==
    /\ args.es_server \notin {"None", ""}
    /\ args.es_index \notin {"None", ""}

\* index_to_opensearch was entered
IndexerCalled == success # "unset" \/ fault # "" \/ pc \in {"index_to_opensearch", "ping", "index"}

NoIndexerTraffic == client = 0 /\ pings = <<>> /\ indexCalls = <<>>

-----------------------------------------------------------------------------
(* Properties of parse_benchmarks, checked under SpecParse *)

C3_CallerIdsOnEveryRecord ==
    \A k \in 1..Len(results) :
        /\ IdKeys \subseteq DOMAIN results[k]
        /\ results[k].uuid = args.uuid
        /\ results[k].job_name = args.job_name

\* empty caller ids, a document that holds its own uuid keys at both levels
C3_Witness ==
    /\ Returned
    /\ args.uuid = "" /\ args.job_name = ""
    /\ "uuid" \in DOMAIN TheBenchmark
    /\ Len(results) = 3
    /\ \A key \in {"successful", "errored"} :
        /\ Len(DocRequests(key)) = 1
        /\ "uuid" \in DOMAIN DocRequests(key)[1]

\* C4 as stated: prompt_tokens is the text between the first '=' and the next ','
\* (where there is one), output_tokens is everything after the second '='; both
\* are 0 without '='.
C4_Original ==
    Returned =>
        LET s == DocData
            e1 == NextStop(s, 0, {"="})
            comma == NextStop(s, e1, {","})
            e2 == NextStop(s, e1, {"="})
        IN  IF CountOf(s, "=") = 0
            THEN /\ results[1].prompt_tokens = PyInt(0)
                 /\ results[1].output_tokens = PyInt(0)
            ELSE /\ comma <= Len(s) =>
                    results[1].prompt_tokens = PyStr(SubSeq(s, e1 + 1, comma - 1))
                 /\ results[1].output_tokens = PyStr(SubSeq(s, e2 + 1, Len(s)))

\* C4 amended: the call returns unless the string holds exactly one '=' (then
\* IndexError leaves it); prompt_tokens is the text between the first '=' and the
\* next ',' or '=' (or the end), output_tokens is the text between the second '='
\* and the third '=' (or the end); both are the int 0 without '='.
C4_SplitPositions ==
    (pc # "main" /\ HasBenchmark) =>
        LET s == DocData
            e1 == NextStop(s, 0, {"="})
            stop1 == NextStop(s, e1, {"=", ","})
            e2 == NextStop(s, e1, {"="})
            e3 == NextStop(s, e2, {"="})
        IN  IF CountOf(s, "=") = 0
            THEN /\ Returned
                 /\ results[1].prompt_tokens = PyInt(0)
                 /\ results[1].output_tokens = PyInt(0)
            ELSE IF CountOf(s, "=") = 1
            THEN ~Returned /\ raised = "IndexError"
            ELSE /\ Returned
                 /\ results[1].prompt_tokens = PyStr(SubSeq(s, e1 + 1, stop1 - 1))
                 /\ results[1].output_tokens = PyStr(SubSeq(s, e2 + 1, e3 - 1))

\* the documented example: "p=128,o=256" gives "128" and "256"
C4_Witness ==
    /\ Returned
    /\ DocData = ExampleData
    /\ results[1].prompt_tokens = PyStr(<<"1", "2", "8">>)
    /\ results[1].output_tokens = PyStr(<<"2", "5", "6">>)

\* C5 as stated: with a non-empty benchmarks sequence the call returns records,
\* whatever optional fields are absent and whatever string request_loader.data holds.
C5_NeverAbortsOnOptionalFields ==
    (pc # "main" /\ HasBenchmark) => (Returned /\ raised = "")

\* C10: the keys of a returned record depend only on its kind. The summary has
\* every declared key, each numeric one 0 (the token counts the int 0) when its
\* source is absent; a successful-request record has the five common keys and the
\* six latency and throughput keys; an errored-request record has exactly the
\* five common keys.
C10_KeysFixedPerKind ==
    Returned =>
        LET N == Len(DocRequests("successful"))
        IN  /\ DOMAIN results[1] = SummaryKeys
            /\ \A f \in MetricFields : ~MetricPresent(f[2], f[3]) => results[1][f[1]] = 0
            /\ \A f \in TotalFields : ~TotalPresent(f[2]) => results[1][f[1]] = 0
            /\ ~RatePresent => results[1].rate = 0
            /\ CountOf(DocData, "=") = 0 =>
                 results[1].prompt_tokens = PyInt(0) /\ results[1].output_tokens = PyInt(0)
            /\ \A k \in 2..Len(results) :
                 DOMAIN results[k] = IF k <= 1 + N THEN SuccessfulKeys ELSE ErroredKeys

\* a benchmark without metrics, totals, args and loader, with one request of each kind
C10_Witness ==
    /\ Returned
    /\ DOMAIN TheBenchmark = {"requests"}
    /\ Len(DocRequests("successful")) = 1
    /\ Len(DocRequests("errored")) = 1
    /\ results[1].ttft_p99_ms = 0
    /\ DOMAIN results[3] = ErroredKeys

-----------------------------------------------------------------------------
(* Properties of main and index_to_opensearch, checked under Spec *)

\* C1 as stated: when extraction succeeded and the requested indexing failed, the
\* records are emitted to the requested destination and the exit status is non-zero.
C1_OutputDespiteIndexFailure ==
    (pc = "exited" /\ Returned /\ BothSupplied /\ success = "False") =>
        (Emitted /\ exitStatus # 0)

\* C6: a missing file, an unparsable file, and a document whose benchmarks are
\* absent or empty end the run at once with a non-zero status: nothing is written
\* to the output file or as records to standard output, no client is created, no
\* probe and no index request is made.
C6_InputErrorsTerminateAtOnce ==
    (pc # "main" /\ ~HasBenchmark) =>
        /\ pc = "exited"
        /\ exitStatus > 0
        /\ NothingEmitted
        /\ NoIndexerTraffic
        /\ ~IndexerCalled

\* an empty benchmarks list, with endpoint, index name and output file all supplied
C6_Witness ==
    /\ pc = "exited"
    /\ file = Doc(<<>>)
    /\ BothSupplied
    /\ args.output = "out.json"
    /\ exitStatus = 1

\* C7 as stated: in every run the indexer is called iff endpoint and index name are
\* both supplied and non-empty, and when either is missing or empty there is no
\* indexer traffic and the output is emitted with exit status zero.
C7_Original ==
    /\ (IndexerCalled \/ ~NothingEmitted) => pc # "main"
    /\ IndexerCalled => BothSupplied
    /\ pc = "exited" => (IndexerCalled <=> BothSupplied)
    /\ ~BothSupplied => NoIndexerTraffic
    /\ (pc = "exited" /\ ~BothSupplied) => (Emitted /\ exitStatus = 0)

\* C7 amended: in every run where extraction succeeded the indexer is called iff
\* both are supplied and non-empty; it is never called otherwise; when either is
\* missing or empty there is no indexer traffic, and the output is emitted with
\* exit status zero unless opening the --output file fails.
C7_IndexerGatedByBothArguments ==
    /\ (IndexerCalled \/ ~NothingEmitted) => (pc # "main" /\ Returned)
    /\ IndexerCalled => BothSupplied
    /\ (pc = "exited" /\ Returned) => (IndexerCalled <=> BothSupplied)
    /\ ~BothSupplied => (NoIndexerTraffic /\ ~IndexerCalled)
    /\ (pc = "exited" /\ Returned /\ ~BothSupplied) =>
         \/ Emitted /\ exitStatus = 0 /\ raised = ""
         \/ raised = "OSError" /\ NothingEmitted /\ exitStatus = 1

\* an endpoint without an index name: records printed, status zero, indexer untouched
C7_Witness ==
    /\ pc = "exited"
    /\ Returned
    /\ args.es_server = "http://es:9200"
    /\ args.es_index = "None"
    /\ Emitted
    /\ exitStatus = 0
    /\ NoIndexerTraffic

\* C8: one call makes at most one probe and at most one index request, sends the
\* index request only after a probe that succeeded, and after a failed probe
\* returns failure without an index request.
C8_SingleProbeThenSingleIndex ==
    /\ Len(pings) <= 1
    /\ Len(indexCalls) <= 1
    /\ indexCalls # <<>> => pings = <<"True">>
    /\ (pings # <<>> /\ pings[1] # "True") =>
         /\ success = "False"
         /\ indexCalls = <<>>
         /\ pc \in {"returned", "exited"}

\* the probe reported failure and the call returned False
C8_Witness ==
    /\ pings = <<"False">>
    /\ success = "False"
    /\ pc = "returned"
    /\ indexCalls = <<>>

\* C9: no exception leaves index_to_opensearch: after a connection failure, a
\* request failure or any other failure in its try block it returns False; it
\* returns True only after a successful probe and one completed index request
\* whose response carried the document identifier.
C9_IndexerNeverRaises ==
    /\ raised \notin {"ConnectionError", "RequestError", "Exception", "KeyError"}
    /\ fault # "" => (success = "False" /\ pc \in {"returned", "exited"})
    /\ (pc = "exited" /\ IndexerCalled) => success \in {"True", "False"}
    /\ success = "True" =>
         /\ pings = <<"True">>
         /\ Len(indexCalls) = 1
         /\ fault = ""
         /\ \E i \in 1..Len(stdout) : stdout[i] = Message("Successfully indexed document")

\* an unexpected failure of the index request: the call returned False to main
C9_Witness ==
    /\ fault = "Exception"
    /\ Len(indexCalls) = 1
    /\ success = "False"
    /\ pc = "returned"

====
